---- MODULE Spec2Model ----
(***************************************************************************)
(* Clocktopus: the local session store (lib/db), the Clockify client's     *)
(* startTimer/stopTimer/getActiveTimer, the start and stop commands and    *)
(* the monitor command with its lock poller and its idle poller.           *)
(*                                                                         *)
(* Timestamps are milliseconds since the epoch.  The code stores them as   *)
(* ISO-8601 UTC strings (Date.toISOString), whose lexicographic order      *)
(* SQLite's ORDER BY / < uses and which is the chronological order, and    *)
(* reads them back with new Date(s).getTime(), which returns the same      *)
(* millisecond count.                                                      *)
(*                                                                         *)
(* Every await of a remote call is one step: the remote service handles    *)
(* the request and the continuation of the caller runs up to its next      *)
(* await.  Time passes (Advance) between any two steps.                    *)
(***************************************************************************)
EXTENDS Integers, Sequences, FiniteSets, TLC

VARIABLES
  sessions,      \* table sessions, in insertion (rowid) order
  event_projects,\* table event_projects, a set of rows (eventName is the key)
  google_tokens, \* table google_tokens, in insertion (id) order
  nextId,        \* the next fresh uuid (uuidv4 never repeats)
  remote,        \* the remote service: project of the running timer or NoTimer
  now,           \* the wall clock (Date.now())
  advances,      \* how many times the clock has been advanced
  ticks,         \* how many poller callbacks have been started
  cmds,          \* how many commands have been started
  pollInterval,  \* monitor: let pollInterval, the lock poller's timer
  idleInterval,  \* monitor: const idleInterval, the idle poller's timer
  isLocked,      \* monitor: let isLocked
  lastIdle,      \* monitor: let lastIdle
  lastResumeAt,  \* monitor: let lastResumeAt
  task,          \* the async invocations in flight, one per slot
  lockStopped,   \* history: a stop of the lock poller has stopped a timer since isLocked was last cleared
  resumed,       \* history: the sessions appended by a resume
  last           \* history: the outcome of the most recent operation

vars == <<sessions, event_projects, google_tokens, nextId, remote, now, advances, ticks,
          pollInterval, idleInterval,
          cmds, isLocked, lastIdle, lastResumeAt, task, lockStopped, resumed, last>>

(***************************************************************************)
(* Program constants                                                       *)
(***************************************************************************)
RESUME_COOLDOWN_MS == 10000
TWO_HOURS_MS == 2 * 60 * 60 * 1000
SETTLE_MS == 800
IDLE_THRESHOLD_SECONDS == 300
LOCK_POLL_MS == 3000
IDLE_POLL_MS == 5000
DefaultDescription == "Working on a task..."

\* completedAt TEXT (nullable): the SQL NULL of a timestamp column
NULL == -1
\* jiraTicket TEXT (nullable): the SQL NULL of the ticket column
NoTicket == "null"
\* getActiveTimer's response.data[0] when nothing is running
NoTimer == "none"
\* JavaScript's undefined
Undefined == "undefined"

(***************************************************************************)
(* Bounds                                                                  *)
(***************************************************************************)
\* the wall clock when the model starts (any realistic Date.now() is far
\* larger than two hours)
Epoch == 864000000
\* commands run in one behaviour
MaxCmds == 2
\* poller callbacks started in one behaviour, next to the commands
MaxTicks == 2
\* poller callbacks started in one behaviour of the monitor alone
MaxMonitorTicks == 4
\* clock advances in one behaviour
MaxAdvance == 2
\* rows in the store of the store-only specification
MaxStore == 3
\* poller callbacks started in one behaviour where callbacks of one poller overlap
MaxOverlapTicks == 3
\* rows in the store a purge runs on
MaxPurge == 2
\* rows in table google_tokens
MaxTokens == 2

ClockSteps == {SETTLE_MS, 20000}
\* ages (now - completedAt) of the session a previous run left behind
InitAges == {1800000, TWO_HOURS_MS - 2 * SETTLE_MS, 3 * 60 * 60 * 1000}

Projects == {"p1"}
IdleSamples == {0, 299, 300, 305}

(***************************************************************************)
(* Session store (lib/db)                                                  *)
(***************************************************************************)
Session(id, projectId, description, startedAt, completedAt, isAutoCompleted, jiraTicket) ==
  [id |-> id, projectId |-> projectId, description |-> description,
   startedAt |-> startedAt, completedAt |-> completedAt,
   isAutoCompleted |-> isAutoCompleted, jiraTicket |-> jiraTicket]

\* what a caller holds when getLatestSession threw (SessionSchema.parse(undefined))
ZodError == Session(0, "", "", NULL, NULL, 0, NoTicket)

Ids(S) == {S[i].id : i \in 1..Len(S)}
Rows(S) == {S[i] : i \in 1..Len(S)}

\* INSERT INTO sessions ...: id is the PRIMARY KEY, a duplicate id throws
logSessionStartThrows(S, id) == id \in Ids(S)

\* what INSERT OR REPLACE would do
logSessionStart_Replace(S, id, projectId, description, startedAt, jiraTicket) ==
  Append(SelectSeq(S, LAMBDA x : x.id # id),
         Session(id, projectId, description, startedAt, NULL, 0, jiraTicket))

logSessionStart(S, id, projectId, description, startedAt, jiraTicket) ==
  IF logSessionStartThrows(S, id)
    THEN S
    ELSE Append(S, Session(id, projectId, description, startedAt, NULL, 0, jiraTicket))

OpenIdx(S) == {i \in 1..Len(S) : S[i].completedAt = NULL}

\* SELECT id FROM sessions WHERE completedAt IS NULL ORDER BY startedAt DESC LIMIT 1
\* (rows with equal startedAt come in an order SQL leaves unspecified)
LatestOpenIdx_AnyRow(S) ==
  {i \in 1..Len(S) : \A j \in 1..Len(S) : S[j].startedAt <= S[i].startedAt}

LatestOpenIdx(S) ==
  {i \in OpenIdx(S) : \A j \in OpenIdx(S) : S[j].startedAt <= S[i].startedAt}

completeLatestSession_AlwaysAuto(S, completedAt, isAutoCompleted) ==
  IF LatestOpenIdx(S) = {}
    THEN {S}
    ELSE {[S EXCEPT ![i].completedAt = completedAt, ![i].isAutoCompleted = 1]
            : i \in LatestOpenIdx(S)}

\* UPDATE sessions SET completedAt = ?, isAutoCompleted = ? WHERE id = (...)
\* the set of stores the statement can leave
completeLatestSession(S, completedAt, isAutoCompleted) ==
  IF LatestOpenIdx(S) = {}
    THEN {S}
    ELSE {[S EXCEPT ![i].completedAt = completedAt,
                    ![i].isAutoCompleted = IF isAutoCompleted THEN 1 ELSE 0]
            : i \in LatestOpenIdx(S)}

\* SELECT * FROM sessions ORDER BY startedAt DESC LIMIT 1, then SessionSchema.parse:
\* the set of values the call can produce
getLatestSession(S) ==
  IF Len(S) = 0
    THEN {ZodError}
    ELSE {S[i] : i \in {k \in 1..Len(S) : \A j \in 1..Len(S) : S[j].startedAt <= S[k].startedAt}}

\* Date.prototype.toISOString: a fixed-width text, most significant field first
\* (YYYY-MM-DDTHH:mm:ss.sssZ); here the fixed-width decimal digits of the instant
IsoWidth == 10
DAY_MS == 24 * 60 * 60 * 1000

RECURSIVE Digits(_, _)
Digits(n, w) == IF w = 0 THEN <<>> ELSE Append(Digits(n \div 10, w - 1), n % 10)

toISOString(t) == Digits(t, IsoWidth)

\* SQLite's < on TEXT (BINARY collation): the first differing character decides
RECURSIVE TextLess(_, _)
TextLess(a, b) ==
  IF a = <<>> THEN b # <<>>
  ELSE IF b = <<>> THEN FALSE
  ELSE IF a[1] # b[1] THEN a[1] < b[1]
  ELSE TextLess(Tail(a), Tail(b))

\* const date = new Date(); date.setDate(date.getDate() - days): days calendar days
\* back in local time, offsetChange being the change of the UTC offset in between
CutoffDate(t, days, offsetChange) == t - days * DAY_MS + offsetChange

deleteOldSessions_Inclusive(S, cutoff) ==
  SelectSeq(S, LAMBDA x : TextLess(toISOString(cutoff), toISOString(x.startedAt)))

\* DELETE FROM sessions WHERE startedAt < ?  (? = date.toISOString())
deleteOldSessions(S, cutoff) ==
  SelectSeq(S, LAMBDA x : ~TextLess(toISOString(x.startedAt), toISOString(cutoff)))

(***************************************************************************)
(* Event-project assignments and the token history (lib/db)                *)
(***************************************************************************)
\* projectId TEXT (nullable): the SQL NULL of event_projects.projectId, "skip this event"
NullProject == "null"
\* getLatestToken's null
NullToken == [access_token |-> "null"]

EventRow(eventName, projectId) == [eventName |-> eventName, projectId |-> projectId]

\* row ? row.projectId : undefined
getEventProject(T, eventName) ==
  IF \E r \in T : r.eventName = eventName
    THEN (CHOOSE r \in T : r.eventName = eventName).projectId
    ELSE Undefined

\* what INSERT OR IGNORE would do
setEventProject_Ignore(T, eventName, projectId) ==
  IF \E r \in T : r.eventName = eventName THEN T ELSE T \cup {EventRow(eventName, projectId)}

\* INSERT OR REPLACE INTO event_projects: eventName is the PRIMARY KEY
setEventProject(T, eventName, projectId) ==
  {r \in T : r.eventName # eventName} \cup {EventRow(eventName, projectId)}

\* JSON.stringify of a token object, and JSON.parse of the stored text
JSONstringify(token) == "{\"access_token\":\"" \o token.access_token \o "\"}"
JSONparse(text) ==
  CHOOSE token \in {[access_token |-> a] : a \in {"a1", "a2", "a3"}} : JSONstringify(token) = text

\* INSERT INTO google_tokens (token, createdAt): id INTEGER PRIMARY KEY AUTOINCREMENT
storeToken(G, token, t) ==
  Append(G, [id |-> Len(G) + 1, token |-> JSONstringify(token), createdAt |-> toISOString(t)])

\* what ORDER BY createdAt ASC LIMIT 1 would return
getLatestToken_Oldest(G) ==
  IF Len(G) = 0
    THEN {NullToken}
    ELSE {JSONparse(G[i].token) :
            i \in {k \in 1..Len(G) : \A j \in 1..Len(G) : ~TextLess(G[j].createdAt, G[k].createdAt)}}

\* SELECT * FROM google_tokens ORDER BY createdAt DESC LIMIT 1;
\* row ? JSON.parse(row.token) : null  (the set of values the call can produce)
getLatestToken(G) ==
  IF Len(G) = 0
    THEN {NullToken}
    ELSE {JSONparse(G[i].token) :
            i \in {k \in 1..Len(G) : \A j \in 1..Len(G) : ~TextLess(G[k].createdAt, G[j].createdAt)}}

(***************************************************************************)
(* Async invocations.  LockSlots/IdleSlots hold the bodies of the lock     *)
(* poller's and the idle poller's setInterval callbacks (setInterval does  *)
(* not wait for an async callback, so two bodies of one poller can be in   *)
(* flight); "cmd" is the command being run from the shell, a process of    *)
(* its own on the same database file.                                      *)
(***************************************************************************)
LockSlots == {"L1", "L2"}
IdleSlots == {"I1", "I2"}
\* the slot a callback body takes when no other body of its poller is in flight
FirstSlots == {"L1", "I1"}
MonitorSlots == LockSlots \cup IdleSlots
Slots == MonitorSlots \cup {"cmd"}

JiraSummary == "Fix the login button"
\* start [message] -j <ticket>, with the project picked in the prompt
StartInputs ==
  { [projectId |-> "p1", message |-> m, jira |-> NoTicket] : m \in {Undefined, "Write the report"} }

Idle ==
  [pc |-> "idle", latestSession |-> ZodError, completedAt |-> NULL,
   transAt |-> NULL, decidedAt |-> NULL, wakeAt |-> NULL,
   projectId |-> "", description |-> "", jiraTicket |-> NoTicket,
   startedAt |-> NULL, sessionId |-> 0]

\* the outcome of an operation; for a resume decision, sess is the session it
\* was taken on, at the time it was taken at and transAt the time the return to
\* active was observed at
Outcome(op, res) == [op |-> op, res |-> res, sess |-> ZodError, at |-> 0, transAt |-> 0]
Decision(op, res, sess, transAt) ==
  [op |-> op, res |-> res, sess |-> sess, at |-> now, transAt |-> transAt]

\* timeSpentSeconds = Math.round((completedAt - startedAt) / 1000)
timeSpentSeconds(completedAt, startedAt) == (completedAt - startedAt + 500) \div 1000

\* if (timeSpentSeconds >= 60)
JIRA_MIN_SECONDS == 60

\* if (latestSession.jiraTicket) { ...; if (timeSpentSeconds >= 60) await stopJiraTimer(...) }
NotifiesJira(ls, completedAt) ==
  /\ ls.jiraTicket # NoTicket
  /\ timeSpentSeconds(completedAt, ls.startedAt) >= JIRA_MIN_SECONDS

\* the outcome of a stop that has closed the session: when stopJiraTimer is called,
\* sess is the session it is called for, at the seconds logged and transAt the
\* completion time
StopOutcome(op, ls, completedAt) ==
  IF NotifiesJira(ls, completedAt)
    THEN [op |-> op, res |-> "stopped", sess |-> ls,
          at |-> timeSpentSeconds(completedAt, ls.startedAt), transAt |-> completedAt]
    ELSE Outcome(op, "stopped")


\* what would be left of a callback whose exception nothing caught
TickCatch_Unhandled(s) == [Idle EXCEPT !.pc = "unhandled"]

\* try { ... } catch (error) { console.error(...) } / catch (e) { }: the callback
\* ends normally and its poller goes on
TickCatch(s) == Idle

\* response.data[0] of getActiveTimer; null when the request failed
getActiveTimer(ok) == IF ok THEN remote ELSE NoTimer
stopTimer_AlwaysAnEntry(ok) == TRUE

\* response.data of stopTimer; null when the request failed (nothing running included)
stopTimer(ok) == ok /\ remote # NoTimer

(***************************************************************************)
(* monitor: stopTimerAndLog                                                *)
(***************************************************************************)
\* const activeEntry = await getActiveTimer(); if (!activeEntry) return false;
\* completedAt = new Date(); latestSession = getLatestSession(); await stopTimer()
SlActive(s, ok) ==
  /\ s \in MonitorSlots
  /\ task[s].pc = "sl_active"
  /\ IF getActiveTimer(ok) = NoTimer
       THEN /\ task' = [task EXCEPT ![s] = Idle]
            /\ last' = Outcome("stopTimerAndLog", IF ok THEN "noActive" ELSE "getActiveFailed")
       ELSE \E ls \in getLatestSession(sessions) :
              IF ls = ZodError
                THEN \* thrown into the tick's catch
                     /\ task' = [task EXCEPT ![s] = TickCatch(s)]
                     /\ last' = Outcome("stopTimerAndLog", "threw")
                ELSE /\ task' = [task EXCEPT ![s] = [Idle EXCEPT !.pc = "sl_stop",
                                     !.completedAt = now, !.latestSession = ls]]
                     /\ UNCHANGED last
  /\ UNCHANGED <<sessions, nextId, remote, now, advances, pollInterval, idleInterval, event_projects, google_tokens, ticks, cmds, isLocked, lockStopped, lastIdle, lastResumeAt, resumed>>

\* const stoppedEntry = await stopTimer(); if (!stoppedEntry) return false;
\* completeLatestSession(completedAt, true); ...; return true
\* and the idle poller's: if (stopped) lastIdle = true
SlStop(s, ok) ==
  /\ s \in MonitorSlots
  /\ task[s].pc = "sl_stop"
  /\ task' = [task EXCEPT ![s] = Idle]
  /\ IF ~stopTimer(ok)
       THEN /\ last' = Outcome("stopTimerAndLog", "stopFailed")
            /\ UNCHANGED <<sessions, remote, lastIdle, lockStopped>>
       ELSE /\ remote' = NoTimer
            /\ sessions' \in completeLatestSession(sessions, task[s].completedAt, TRUE)
            /\ last' = StopOutcome("stopTimerAndLog", task[s].latestSession, task[s].completedAt)
            /\ lastIdle' = IF s \in IdleSlots THEN TRUE ELSE lastIdle
            /\ lockStopped' = IF s \in LockSlots THEN TRUE ELSE lockStopped
  /\ UNCHANGED <<nextId, now, advances, pollInterval, idleInterval, event_projects, google_tokens, ticks, cmds, isLocked, lastResumeAt, resumed>>

(***************************************************************************)
(* monitor: safeRestartTimerIfNeeded                                       *)
(***************************************************************************)
\* what the poller does when safeRestartTimerIfNeeded has returned
FlagsAfterRestart(s) ==
  IF s \in LockSlots
    THEN isLocked' = FALSE /\ lockStopped' = FALSE /\ lastIdle' = lastIdle
    ELSE lastIdle' = FALSE /\ UNCHANGED <<isLocked, lockStopped>>

\* if (now - lastResumeAt < RESUME_COOLDOWN_MS) return;
InCooldown(t) == t - lastResumeAt < RESUME_COOLDOWN_MS

BeginRestart_LockSkipsCooldown(s, limit) ==
  /\ ticks < limit
  /\ IF InCooldown(now) /\ s \in IdleSlots
       THEN /\ task' = [task EXCEPT ![s] = Idle]
            /\ FlagsAfterRestart(s)
            /\ last' = Outcome("safeRestartTimerIfNeeded", "cooldown")
       ELSE /\ task' = [task EXCEPT ![s] = [Idle EXCEPT !.pc = "sr_sleep",
                            !.transAt = now, !.wakeAt = now + SETTLE_MS]]
            /\ UNCHANGED <<isLocked, lockStopped, lastIdle, last>>
  /\ ticks' = ticks + 1
  /\ UNCHANGED <<sessions, nextId, remote, now, advances, pollInterval, idleInterval, event_projects, google_tokens, cmds, lastResumeAt, resumed>>

\* const now = Date.now(); if (in cooldown) return; await sleep(800)
BeginRestart(s, limit) ==
  /\ ticks < limit
  /\ IF InCooldown(now)
       THEN /\ task' = [task EXCEPT ![s] = Idle]
            /\ FlagsAfterRestart(s)
            /\ last' = Outcome("safeRestartTimerIfNeeded", "cooldown")
       ELSE /\ task' = [task EXCEPT ![s] = [Idle EXCEPT !.pc = "sr_sleep",
                            !.transAt = now, !.wakeAt = now + SETTLE_MS]]
            /\ UNCHANGED <<isLocked, lockStopped, lastIdle, last>>
  /\ ticks' = ticks + 1
  /\ UNCHANGED <<sessions, nextId, remote, now, advances, pollInterval, idleInterval, event_projects, google_tokens, cmds, lastResumeAt, resumed>>

\* after the sleep: latestSession = getLatestSession(); await getActiveTimer()
SrWake(s) ==
  /\ s \in MonitorSlots
  /\ task[s].pc = "sr_sleep"
  /\ now >= task[s].wakeAt
  /\ \E ls \in getLatestSession(sessions) :
       IF ls = ZodError
         THEN \* thrown into the tick's catch: the poller's flag is left as it was
              /\ task' = [task EXCEPT ![s] = TickCatch(s)]
              /\ last' = Outcome("safeRestartTimerIfNeeded", "threw")
         ELSE /\ task' = [task EXCEPT ![s].pc = "sr_active", ![s].latestSession = ls]
              /\ UNCHANGED last
  /\ UNCHANGED <<sessions, nextId, remote, now, advances, pollInterval, idleInterval, event_projects, google_tokens, ticks, cmds, isLocked, lockStopped, lastIdle, lastResumeAt, resumed>>

\* latestSession.isAutoCompleted as a condition: the column holds 0 or 1
AutoCompleted_Always(ls) == TRUE

AutoCompleted(ls) == ls.isAutoCompleted # 0

\* completedAt > twoHoursAgo
CompletedAfter_Inclusive(completedAt, twoHoursAgo) == completedAt >= twoHoursAgo

CompletedAfter(completedAt, twoHoursAgo) == completedAt > twoHoursAgo

Eligible_Inverted(ls, t) == ~AutoCompleted(ls)

\* const twoHoursAgo = Date.now() - 2h;
\* const completedAt = latestSession.completedAt ? getTime() : 0;
\* eligible = isAutoCompleted && completedAt > twoHoursAgo && !!projectId
Eligible(ls, t) ==
  LET twoHoursAgo == t - TWO_HOURS_MS
      completedAt == IF ls.completedAt # NULL THEN ls.completedAt ELSE 0
  IN  AutoCompleted(ls) /\ CompletedAfter(completedAt, twoHoursAgo) /\ ls.projectId # ""

ResumeDescription_Default(ls) == DefaultDescription

\* the description safeRestartTimerIfNeeded passes to startTimer
ResumeDescription(ls) == ls.description

\* if (activeEntry) return; if (!eligible) return; await startTimer(...) -> await getUser()
SrActive(s, ok) ==
  /\ s \in MonitorSlots
  /\ task[s].pc = "sr_active"
  /\ IF getActiveTimer(ok) # NoTimer
       THEN /\ task' = [task EXCEPT ![s] = Idle]
            /\ FlagsAfterRestart(s)
            /\ last' = Outcome("safeRestartTimerIfNeeded", "active")
       ELSE IF ~Eligible(task[s].latestSession, now)
         THEN /\ task' = [task EXCEPT ![s] = Idle]
              /\ FlagsAfterRestart(s)
              /\ last' = Decision("safeRestartTimerIfNeeded", "ineligible", task[s].latestSession, task[s].transAt)
         ELSE /\ task' = [task EXCEPT ![s].pc = "st_user", ![s].decidedAt = now,
                                      ![s].projectId = task[s].latestSession.projectId,
                                      ![s].description = ResumeDescription(task[s].latestSession),
                                      ![s].jiraTicket = NoTicket]
              /\ UNCHANGED <<isLocked, lockStopped, lastIdle, last>>
  /\ UNCHANGED <<sessions, nextId, remote, now, advances, pollInterval, idleInterval, event_projects, google_tokens, ticks, cmds, lastResumeAt, resumed>>

(***************************************************************************)
(* Clockify.startTimer, called by the start command and by the resume      *)
(***************************************************************************)
\* the caller's continuation once startTimer has returned
StartTimerReturns(s, res) ==
  /\ task' = [task EXCEPT ![s] = Idle]
  /\ IF s \in MonitorSlots
       THEN /\ lastResumeAt' = now
            /\ FlagsAfterRestart(s)
            /\ last' = Outcome("safeRestartTimerIfNeeded", res)
       ELSE /\ UNCHANGED <<lastResumeAt, isLocked, lockStopped, lastIdle>>
            /\ last' = Outcome("start", res)

\* finalDescription = `${jiraTicket} ${ticket.fields.summary}` when the ticket was found
FinalDescription(description, jiraTicket, found) ==
  IF jiraTicket # NoTicket /\ found THEN jiraTicket \o " " \o JiraSummary ELSE description

\* user = await getUser(); if (!user) return null; (ticket lookup);
\* startedAt = new Date(); sessionId = uuidv4(); await post(...)
StUser(s, ok, found) ==
  /\ s \in Slots
  /\ task[s].pc = "st_user"
  /\ IF ~ok
       THEN /\ StartTimerReturns(s, "noUser")
            /\ UNCHANGED nextId
       ELSE /\ task' = [task EXCEPT ![s].pc = "st_post", ![s].startedAt = now,
                           ![s].sessionId = nextId,
                           ![s].description = FinalDescription(task[s].description, task[s].jiraTicket, found)]
            /\ nextId' = nextId + 1
            /\ UNCHANGED <<lastResumeAt, isLocked, lockStopped, lastIdle, last>>
  /\ UNCHANGED <<sessions, remote, now, advances, pollInterval, idleInterval, event_projects, google_tokens, ticks, cmds, resumed>>

StPost_LogsBeforeAnswer(s, ok) ==
  /\ s \in Slots
  /\ task[s].pc = "st_post"
  /\ sessions' = logSessionStart(sessions, task[s].sessionId, task[s].projectId,
                                 task[s].description, task[s].startedAt, task[s].jiraTicket)
  /\ IF ~ok
       THEN /\ StartTimerReturns(s, "postFailed")
            /\ UNCHANGED <<remote, resumed>>
       ELSE /\ remote' = task[s].projectId
            /\ resumed' = IF s \in MonitorSlots
                            THEN resumed \cup {[transAt |-> task[s].transAt, decidedAt |-> task[s].decidedAt,
                                                src |-> task[s].latestSession,
                                                new |-> sessions'[Len(sessions')]]}
                            ELSE resumed
            /\ task' = [task EXCEPT ![s].pc = "st_proj"]
            /\ UNCHANGED <<lastResumeAt, isLocked, lockStopped, lastIdle, last>>
  /\ UNCHANGED <<nextId, now, advances, pollInterval, idleInterval, event_projects, google_tokens, ticks, cmds>>

\* the POST answered: logSessionStart(...); await getProjectById(); a failed POST is
\* caught and startTimer returns null
StPost(s, ok) ==
  /\ s \in Slots
  /\ task[s].pc = "st_post"
  /\ IF ~ok
       THEN /\ StartTimerReturns(s, "postFailed")
            /\ UNCHANGED <<sessions, remote, resumed>>
       ELSE /\ remote' = task[s].projectId
            /\ sessions' = logSessionStart(sessions, task[s].sessionId, task[s].projectId,
                                           task[s].description, task[s].startedAt, task[s].jiraTicket)
            /\ resumed' = IF s \in MonitorSlots
                            THEN resumed \cup {[transAt |-> task[s].transAt, decidedAt |-> task[s].decidedAt,
                                                src |-> task[s].latestSession,
                                                new |-> sessions'[Len(sessions')]]}
                            ELSE resumed
            /\ task' = [task EXCEPT ![s].pc = "st_proj"]
            /\ UNCHANGED <<lastResumeAt, isLocked, lockStopped, lastIdle, last>>
  /\ UNCHANGED <<nextId, now, advances, pollInterval, idleInterval, event_projects, google_tokens, ticks, cmds>>

\* getProjectById answered; sendNotification; return response.data
StProj(s) ==
  /\ s \in Slots
  /\ task[s].pc = "st_proj"
  /\ StartTimerReturns(s, "started")
  /\ UNCHANGED <<sessions, nextId, remote, now, advances, pollInterval, idleInterval, event_projects, google_tokens, ticks, cmds, resumed>>

(***************************************************************************)
(* monitor: the two pollers                                                *)
(***************************************************************************)
\* a timer handle: never created, created by setInterval, released by clearInterval
NoInterval == "null"
ActiveInterval == "active"
ClearedInterval == "cleared"

Platforms == {"darwin", "linux"}

MonitorSetup_AlwaysPolls(platform, moduleLoads, hasGetSessionState) == ActiveInterval

\* the lock poller is created only on darwin, when macos-notification-state
\* loads and exports getSessionState; otherwise pollInterval stays null
MonitorSetup(platform, moduleLoads, hasGetSessionState) ==
  IF platform = "darwin" /\ moduleLoads /\ hasGetSessionState
    THEN ActiveInterval
    ELSE NoInterval

\* a callback body takes the first free slot of its poller
SlotFree(s) == task[s].pc = "idle"

\* lock poller, locked && !isLocked: isLocked = true; await stopTimerAndLog(...)
LockTickLocked(s, limit) ==
  /\ s \in LockSlots
  /\ pollInterval = ActiveInterval
  /\ SlotFree(s)
  /\ ~isLocked
  /\ ticks < limit
  /\ ticks' = ticks + 1
  /\ isLocked' = TRUE
  /\ task' = [task EXCEPT ![s] = [Idle EXCEPT !.pc = "sl_active"]]
  /\ UNCHANGED <<lockStopped, sessions, nextId, remote, now, advances, pollInterval, idleInterval, event_projects, google_tokens, cmds, lastIdle, lastResumeAt, resumed, last>>

\* lock poller, !locked && isLocked: await safeRestartTimerIfNeeded(); isLocked = false
LockTickUnlocked(s, limit) ==
  /\ s \in LockSlots
  /\ pollInterval = ActiveInterval
  /\ SlotFree(s)
  /\ isLocked
  /\ BeginRestart(s, limit)

\* idle poller, idleTime >= IDLE_THRESHOLD_SECONDS: stopped = await stopTimerAndLog(...)
IdleTickIdle(s, idleTime, limit) ==
  /\ s \in IdleSlots
  /\ idleInterval = ActiveInterval
  /\ SlotFree(s)
  /\ idleTime >= IDLE_THRESHOLD_SECONDS
  /\ ticks < limit
  /\ ticks' = ticks + 1
  /\ task' = [task EXCEPT ![s] = [Idle EXCEPT !.pc = "sl_active"]]
  /\ UNCHANGED <<sessions, nextId, remote, now, advances, pollInterval, idleInterval, event_projects, google_tokens, cmds, isLocked, lockStopped, lastIdle, lastResumeAt, resumed, last>>

\* idle poller, idleTime below the threshold:
\* if (lastIdle) await safeRestartTimerIfNeeded(); lastIdle = false
IdleTickActive(s, idleTime, limit) ==
  /\ s \in IdleSlots
  /\ idleInterval = ActiveInterval
  /\ SlotFree(s)
  /\ idleTime < IDLE_THRESHOLD_SECONDS
  /\ lastIdle
  /\ BeginRestart(s, limit)

(***************************************************************************)
(* The commands                                                            *)
(***************************************************************************)
\* start: clockify.startTimer(workspaceId, selectedProjectId, message, options.jira)
StartCmd(inp) ==
  /\ task["cmd"].pc = "idle"
  /\ cmds < MaxCmds
  /\ cmds' = cmds + 1
  /\ task' = [task EXCEPT !["cmd"] = [Idle EXCEPT !.pc = "st_user",
                  !.projectId = inp.projectId,
                  !.description = IF inp.message = Undefined THEN DefaultDescription ELSE inp.message,
                  !.jiraTicket = inp.jira]]
  /\ UNCHANGED <<sessions, nextId, remote, now, advances, pollInterval, idleInterval, event_projects, google_tokens, ticks, isLocked, lockStopped, lastIdle, lastResumeAt, resumed, last>>

\* stop: latestSession = getLatestSession(); await clockify.stopTimer(...)
StopCmd ==
  /\ task["cmd"].pc = "idle"
  /\ cmds < MaxCmds
  /\ cmds' = cmds + 1
  /\ \E ls \in getLatestSession(sessions) :
       IF ls = ZodError
         THEN \* the command dies with the ZodError
              /\ last' = Outcome("stop", "threw")
              /\ UNCHANGED task
         ELSE /\ task' = [task EXCEPT !["cmd"] = [Idle EXCEPT !.pc = "sc_stop", !.latestSession = ls]]
              /\ UNCHANGED last
  /\ UNCHANGED <<sessions, nextId, remote, now, advances, pollInterval, idleInterval, event_projects, google_tokens, ticks, isLocked, lockStopped, lastIdle, lastResumeAt, resumed>>

\* if (stoppedEntry) { completedAt = new Date(); completeLatestSession(completedAt); ... }
ScStop(ok) ==
  /\ task["cmd"].pc = "sc_stop"
  /\ task' = [task EXCEPT !["cmd"] = Idle]
  /\ IF ~stopTimer(ok)
       THEN /\ last' = Outcome("stop", "noTimer")
            /\ UNCHANGED <<sessions, remote>>
       ELSE /\ remote' = NoTimer
            /\ sessions' \in completeLatestSession(sessions, now, FALSE)
            /\ last' = StopOutcome("stop", task["cmd"].latestSession, now)
  /\ UNCHANGED <<nextId, now, advances, pollInterval, idleInterval, event_projects, google_tokens, ticks, cmds, isLocked, lockStopped, lastIdle, lastResumeAt, resumed>>

(***************************************************************************)
(* The environment                                                         *)
(***************************************************************************)
\* a timer started elsewhere (the service's own UI)
ExternalStart(p) ==
  /\ remote # p
  /\ remote' = p
  /\ UNCHANGED <<sessions, nextId, now, advances, pollInterval, idleInterval, event_projects, google_tokens, ticks, cmds, isLocked, lockStopped, lastIdle, lastResumeAt, task, resumed, last>>

\* a timer stopped elsewhere (the UI, or the Stop button of the notification)
ExternalStop ==
  /\ remote # NoTimer
  /\ remote' = NoTimer
  /\ UNCHANGED <<sessions, nextId, now, advances, pollInterval, idleInterval, event_projects, google_tokens, ticks, cmds, isLocked, lockStopped, lastIdle, lastResumeAt, task, resumed, last>>

Advance(d) ==
  /\ advances < MaxAdvance
  /\ now' = now + d
  /\ advances' = advances + 1
  /\ UNCHANGED <<pollInterval, idleInterval, event_projects, google_tokens, sessions, nextId, remote, ticks, cmds, isLocked, lockStopped, lastIdle, lastResumeAt, task, resumed, last>>

(***************************************************************************)
(* The commands and the monitor on a fresh store                           *)
(***************************************************************************)
InitWith(S) ==
  /\ sessions = S
  /\ event_projects = {}
  /\ google_tokens = <<>>
  /\ nextId = Len(S) + 1
  /\ remote = NoTimer
  /\ now = Epoch
  /\ advances = 0
  /\ ticks = 0
  /\ cmds = 0
  /\ pollInterval = MonitorSetup("darwin", TRUE, TRUE)
  /\ idleInterval = ActiveInterval
  /\ isLocked = FALSE
  /\ lockStopped = FALSE
  /\ lastIdle = FALSE
  /\ lastResumeAt = 0
  /\ task = [s \in Slots |-> Idle]
  /\ resumed = {}
  /\ last = Outcome("init", "")

Init == InitWith(<<>>)

\* the steps of the invocations in flight, the environment and the clock
Steps(slots) ==
  \/ \E s \in slots \cap MonitorSlots, ok \in BOOLEAN : SlActive(s, ok)
  \/ \E s \in slots \cap MonitorSlots, ok \in BOOLEAN : SlStop(s, ok)
  \/ \E s \in slots \cap MonitorSlots : SrWake(s)
  \/ \E s \in slots \cap MonitorSlots, ok \in BOOLEAN : SrActive(s, ok)
  \/ \E s \in slots, ok \in BOOLEAN, found \in BOOLEAN : StUser(s, ok, found)
  \/ \E s \in slots, ok \in BOOLEAN : StPost(s, ok)
  \/ \E s \in slots : StProj(s)
  \/ \E p \in Projects : ExternalStart(p)
  \/ ExternalStop
  \/ \E d \in ClockSteps : Advance(d)

Pollers(limit) ==
  \/ \E s \in LockSlots \cap FirstSlots : LockTickLocked(s, limit)
  \/ \E s \in LockSlots \cap FirstSlots : LockTickUnlocked(s, limit)
  \/ \E s \in IdleSlots \cap FirstSlots, i \in IdleSamples : IdleTickIdle(s, i, limit)
  \/ \E s \in IdleSlots \cap FirstSlots, i \in IdleSamples : IdleTickActive(s, i, limit)

Commands ==
  \/ \E inp \in StartInputs : StartCmd(inp)
  \/ StopCmd
  \/ \E ok \in BOOLEAN : ScStop(ok)

Next == Pollers(MaxTicks) \/ Commands \/ Steps(Slots)

Spec == Init /\ [][Next]_vars

(***************************************************************************)
(* The monitor alone, on the store a previous run left                     *)
(***************************************************************************)
\* empty, or one auto-completed session
InitStores ==
  {<<>>} \cup
  {<<Session(1, "p1", "d1", Epoch - a - 10 * 60 * 1000, Epoch - a, 1, NoTicket)>> : a \in InitAges}

InitMonitor == \E S \in InitStores : InitWith(S)

NextMonitor == Pollers(MaxMonitorTicks) \/ Steps(MonitorSlots)

SpecMonitor == InitMonitor /\ [][NextMonitor]_vars

(***************************************************************************)
(* Starting and stopping only: the commands and the auto-stop of the two   *)
(* pollers, every start with the default description                       *)
(***************************************************************************)
DefaultStartInputs == {inp \in StartInputs : inp.message = Undefined}

NextStops ==
  \/ \E inp \in DefaultStartInputs : StartCmd(inp)
  \/ StopCmd
  \/ \E ok \in BOOLEAN : ScStop(ok)
  \/ \E s \in LockSlots \cap FirstSlots : LockTickLocked(s, MaxTicks)
  \/ \E s \in IdleSlots \cap FirstSlots, i \in IdleSamples : IdleTickIdle(s, i, MaxTicks)
  \/ \E s \in MonitorSlots, ok \in BOOLEAN : SlActive(s, ok)
  \/ \E s \in MonitorSlots, ok \in BOOLEAN : SlStop(s, ok)
  \/ \E ok \in BOOLEAN, found \in BOOLEAN : StUser("cmd", ok, found)
  \/ \E ok \in BOOLEAN : StPost("cmd", ok)
  \/ StProj("cmd")
  \/ \E p \in Projects : ExternalStart(p)
  \/ ExternalStop

SpecStops == Init /\ [][NextStops]_vars

(***************************************************************************)
(* Sessions started for a ticket: start -j <ticket>, and spans long enough  *)
(* for the time to be logged on the ticket                                  *)
(***************************************************************************)
JiraStartInputs == { [projectId |-> "p1", message |-> Undefined, jira |-> "ABC-1"] }
JiraClockSteps == {JIRA_MIN_SECONDS * 1000}

NextJira ==
  \/ \E inp \in JiraStartInputs : StartCmd(inp)
  \/ StopCmd
  \/ \E ok \in BOOLEAN : ScStop(ok)
  \/ Pollers(MaxTicks)
  \/ Steps(Slots)
  \/ \E d \in JiraClockSteps : Advance(d)

SpecJira == Init /\ [][NextJira]_vars

(***************************************************************************)
(* The monitor on any platform: the lock-state source may be unavailable    *)
(***************************************************************************)
\* the monitor's setup logs "Skipping." or "Display monitoring will be disabled"
LockSourceUnavailable(platform, moduleLoads, hasGetSessionState) ==
  platform # "darwin" \/ ~moduleLoads \/ ~hasGetSessionState

InitSetup ==
  \E S \in InitStores, platform \in Platforms, moduleLoads \in BOOLEAN, hasGetSessionState \in BOOLEAN :
    /\ sessions = S
    /\ event_projects = {}
    /\ google_tokens = <<>>
    /\ nextId = Len(S) + 1
    /\ remote = NoTimer
    /\ now = Epoch
    /\ advances = 0
    /\ ticks = 0
    /\ cmds = 0
    /\ pollInterval = MonitorSetup(platform, moduleLoads, hasGetSessionState)
    /\ idleInterval = ActiveInterval
    /\ isLocked = FALSE
    /\ lockStopped = FALSE
    /\ lastIdle = FALSE
    /\ lastResumeAt = 0
    /\ task = [s \in Slots |-> Idle]
    /\ resumed = {}
    /\ last = Outcome("monitor",
                       IF LockSourceUnavailable(platform, moduleLoads, hasGetSessionState)
                         THEN "lockSourceUnavailable" ELSE "lockSourceAvailable")

NextMonitorBrief == Pollers(MaxTicks) \/ Steps(MonitorSlots)

SpecSetup == InitSetup /\ [][NextMonitorBrief]_vars

(***************************************************************************)
(* The monitor and the signals that end it                                  *)
(***************************************************************************)
clearInterval_LeavesTimer(h) == h

\* clearInterval(idleInterval); if (pollInterval) clearInterval(pollInterval)
clearInterval(h) == IF h = NoInterval THEN NoInterval ELSE ClearedInterval

\* what is left of a callback when the process has exited
Exited == [Idle EXCEPT !.pc = "exited"]

\* SIGINT or SIGTERM: cleanupAndExit(0) releases the two timers and calls
\* process.exit, which abandons the callbacks in flight
CleanupAndExit(signal) ==
  /\ \A s \in MonitorSlots : task[s] # Exited
  /\ idleInterval' = clearInterval(idleInterval)
  /\ pollInterval' = clearInterval(pollInterval)
  /\ task' = [s \in Slots |-> IF s \in MonitorSlots THEN Exited ELSE task[s]]
  /\ last' = Outcome("cleanupAndExit", signal)
  /\ UNCHANGED <<sessions, event_projects, google_tokens, nextId, remote, now, advances, ticks, cmds,
                 isLocked, lastIdle, lastResumeAt, lockStopped, resumed>>

NextSignal ==
  \/ NextMonitorBrief
  \/ \E signal \in {"SIGINT", "SIGTERM"} : CleanupAndExit(signal)

SpecSignal == InitSetup /\ [][NextSignal]_vars

(***************************************************************************)
(* The monitor under fair scheduling: the timers keep firing, the event    *)
(* loop runs every continuation that is ready, the clock advances, and a   *)
(* remote call that is made again and again eventually succeeds            *)
(***************************************************************************)
MonitorFairness ==
  /\ WF_vars(\E s \in LockSlots \cap FirstSlots : LockTickUnlocked(s, MaxTicks))
  /\ WF_vars(\E s \in IdleSlots \cap FirstSlots, i \in IdleSamples : IdleTickActive(s, i, MaxTicks))
  /\ WF_vars(\E d \in ClockSteps : Advance(d))
  /\ \A s \in MonitorSlots \cap FirstSlots :
       /\ SF_vars(SlActive(s, TRUE))
       /\ SF_vars(SlStop(s, TRUE))
       /\ WF_vars(SrWake(s))
       /\ SF_vars(SrActive(s, TRUE))
       /\ SF_vars(\E found \in BOOLEAN : StUser(s, TRUE, found))
       /\ SF_vars(StPost(s, TRUE))
       /\ WF_vars(StProj(s))

SpecMonitorFair == InitMonitor /\ [][NextMonitorBrief]_vars /\ MonitorFairness

(***************************************************************************)
(* The monitor with callbacks that outlast their poller's interval:        *)
(* setInterval fires the next callback whether or not the promise of the   *)
(* previous one has settled                                                *)
(***************************************************************************)
RestartPcs == {"sr_sleep", "sr_active", "st_user", "st_post", "st_proj"}

\* a safeRestartTimerIfNeeded of this poller began at least one interval ago and
\* is still awaiting the answer to a remote call (no call has a timeout)
StillRunning(slots, interval) ==
  \E s \in slots \cap FirstSlots :
    task[s].pc \in RestartPcs \ {"sr_sleep"} /\ now - task[s].transAt >= interval

\* the lock poller's next callback: isLocked is still true, the screen unlocked
LockTickOverlapping(s, limit) ==
  /\ s \in LockSlots \ FirstSlots
  /\ StillRunning(LockSlots, LOCK_POLL_MS)
  /\ LockTickUnlocked(s, limit)

\* the idle poller's next callback: lastIdle is still true
IdleTickOverlapping(s, idleTime, limit) ==
  /\ s \in IdleSlots \ FirstSlots
  /\ StillRunning(IdleSlots, IDLE_POLL_MS)
  /\ \/ IdleTickIdle(s, idleTime, limit)
     \/ IdleTickActive(s, idleTime, limit)

NextOverlap ==
  \/ Pollers(MaxOverlapTicks)
  \/ \E s \in LockSlots : LockTickOverlapping(s, MaxOverlapTicks)
  \/ \E s \in IdleSlots, i \in IdleSamples : IdleTickOverlapping(s, i, MaxOverlapTicks)
  \/ Steps(MonitorSlots)

SpecOverlap == InitMonitor /\ [][NextOverlap]_vars

(***************************************************************************)
(* The monitor with a failing presence source and a failing store          *)
(***************************************************************************)
\* getSessionState() throws
LockTickThrows(s, limit) ==
  /\ s \in LockSlots \cap FirstSlots
  /\ pollInterval = ActiveInterval
  /\ SlotFree(s)
  /\ ticks < limit
  /\ ticks' = ticks + 1
  /\ task' = [task EXCEPT ![s] = TickCatch(s)]
  /\ last' = Outcome("pollInterval", "threw")
  /\ UNCHANGED <<sessions, event_projects, google_tokens, nextId, remote, now, advances, pollInterval, idleInterval, cmds,
                 isLocked, lastIdle, lastResumeAt, lockStopped, resumed>>

\* import('desktop-idle') or getIdleTime() throws
IdleTickThrows(s, limit) ==
  /\ s \in IdleSlots \cap FirstSlots
  /\ idleInterval = ActiveInterval
  /\ SlotFree(s)
  /\ ticks < limit
  /\ ticks' = ticks + 1
  /\ task' = [task EXCEPT ![s] = TickCatch(s)]
  /\ last' = Outcome("idleInterval", "threw")
  /\ UNCHANGED <<sessions, event_projects, google_tokens, nextId, remote, now, advances, pollInterval, idleInterval, cmds,
                 isLocked, lastIdle, lastResumeAt, lockStopped, resumed>>

\* the remote stop succeeded and completeLatestSession throws (the database is
\* locked by a command writing to it)
SlStopStoreThrows(s) ==
  /\ s \in MonitorSlots
  /\ task[s].pc = "sl_stop"
  /\ stopTimer(TRUE)
  /\ remote' = NoTimer
  /\ task' = [task EXCEPT ![s] = TickCatch(s)]
  /\ last' = Outcome("stopTimerAndLog", "storeThrew")
  /\ UNCHANGED <<sessions, event_projects, google_tokens, nextId, now, advances, pollInterval, idleInterval, ticks, cmds,
                 isLocked, lastIdle, lastResumeAt, lockStopped, resumed>>

NextFaults ==
  \/ Pollers(MaxMonitorTicks)
  \/ \E s \in LockSlots : LockTickThrows(s, MaxMonitorTicks)
  \/ \E s \in IdleSlots : IdleTickThrows(s, MaxMonitorTicks)
  \/ \E s \in MonitorSlots : SlStopStoreThrows(s)
  \/ Steps(MonitorSlots)

SpecFaults == InitMonitor /\ [][NextFaults]_vars

(***************************************************************************)
(* The store alone: any caller, any arguments                              *)
(***************************************************************************)
StoreTimes == {Epoch, Epoch + SETTLE_MS}
StoreDescriptions == {"d1"}

StoreFrame == UNCHANGED <<nextId, remote, now, advances, pollInterval, idleInterval, event_projects, google_tokens, ticks, cmds, isLocked, lockStopped, lastIdle,
                          lastResumeAt, task, resumed>>

StoreLogSessionStart(id, projectId, description, startedAt) ==
  /\ Len(sessions) < MaxStore
  /\ sessions' = logSessionStart(sessions, id, projectId, description, startedAt, NoTicket)
  /\ last' = [op |-> "logSessionStart",
              res |-> IF logSessionStartThrows(sessions, id) THEN "threw" ELSE "ok",
              sess |-> Session(id, projectId, description, startedAt, NULL, 0, NoTicket),
              at |-> 0, transAt |-> 0]
  /\ StoreFrame

StoreCompleteLatestSession(completedAt, isAutoCompleted) ==
  /\ sessions' \in completeLatestSession(sessions, completedAt, isAutoCompleted)
  /\ last' = [op |-> "completeLatestSession",
              res |-> IF isAutoCompleted THEN "auto" ELSE "user",
              sess |-> ZodError, at |-> completedAt, transAt |-> 0]
  /\ StoreFrame

StoreGetLatestSession ==
  /\ \E ls \in getLatestSession(sessions) :
       last' = [op |-> "getLatestSession",
                res |-> IF ls = ZodError THEN "threw" ELSE "row",
                sess |-> ls, at |-> 0, transAt |-> 0]
  /\ UNCHANGED sessions
  /\ StoreFrame

NextStore ==
  \/ \E id \in 1..MaxStore, p \in Projects, d \in StoreDescriptions, t \in StoreTimes :
       StoreLogSessionStart(id, p, d, t)
  \/ \E t \in StoreTimes, a \in BOOLEAN : StoreCompleteLatestSession(t, a)
  \/ StoreGetLatestSession

SpecStore == Init /\ [][NextStore]_vars

(***************************************************************************)
(* Database cleanup (db:cleanup) on a store that has been in use for days  *)
(***************************************************************************)
PurgeDays == {1, 5}
OffsetChanges == {0, 3600000}
PurgeStarts == {Epoch - 6 * DAY_MS, Epoch - 5 * DAY_MS, Epoch - DAY_MS, Epoch - 3600000}
PurgeCutoffs == {CutoffDate(Epoch, d, o) : d \in PurgeDays, o \in OffsetChanges}

\* sessions started days ago, each one closed ten minutes later or left open
PurgeRows(id) ==
  {Session(id, "p1", "d1", t, NULL, 0, NoTicket) : t \in PurgeStarts}
    \cup {Session(id, "p1", "d1", t, t + 600000, 0, NoTicket) : t \in PurgeStarts}

PurgeStores ==
  UNION {{S \in [1..n -> UNION {PurgeRows(i) : i \in 1..n}] : \A i \in 1..n : S[i].id = i}
           : n \in 0..MaxPurge}

InitPurge == \E S \in PurgeStores : InitWith(S)

StoreDeleteOldSessions(days, offsetChange) ==
  /\ sessions' = deleteOldSessions(sessions, CutoffDate(now, days, offsetChange))
  /\ last' = [op |-> "deleteOldSessions", res |-> "ok", sess |-> ZodError,
              at |-> CutoffDate(now, days, offsetChange), transAt |-> 0]
  /\ StoreFrame

NextPurge ==
  \/ \E d \in PurgeDays, o \in OffsetChanges : StoreDeleteOldSessions(d, o)
  \/ \E t \in StoreTimes, a \in BOOLEAN : StoreCompleteLatestSession(t, a)
  \/ StoreGetLatestSession

SpecPurge == InitPurge /\ [][NextPurge]_vars

\* the whole life of a session: appended, closed, purged
NextLifecycle ==
  \/ NextPurge
  \/ \E id \in 1..MaxPurge, p \in Projects, d \in StoreDescriptions, t \in StoreTimes :
       Len(sessions) < MaxPurge /\ StoreLogSessionStart(id, p, d, t)

SpecLifecycle == InitPurge /\ [][NextLifecycle]_vars

(***************************************************************************)
(* The event-project assignments and the token history: any caller         *)
(***************************************************************************)
EventNames == {"Standup", "Lunch"}
EventProjects == {"p1", "p2", NullProject}
Tokens == {[access_token |-> a] : a \in {"a1", "a2"}}

CacheFrame == UNCHANGED <<sessions, nextId, remote, now, advances, pollInterval, idleInterval, ticks, cmds, isLocked,
                          lastIdle, lastResumeAt, task, lockStopped, resumed>>

CacheSetEventProject(eventName, projectId) ==
  /\ event_projects' = setEventProject(event_projects, eventName, projectId)
  /\ last' = [op |-> "setEventProject", eventName |-> eventName, res |-> projectId,
              prev |-> getEventProject(event_projects, eventName)]
  /\ UNCHANGED google_tokens
  /\ CacheFrame

CacheGetEventProject(eventName) ==
  /\ last' = [op |-> "getEventProject", eventName |-> eventName,
              res |-> getEventProject(event_projects, eventName), prev |-> Undefined]
  /\ UNCHANGED <<event_projects, google_tokens>>
  /\ CacheFrame

CacheStoreToken(token) ==
  /\ Len(google_tokens) < MaxTokens
  /\ google_tokens' = storeToken(google_tokens, token, now)
  /\ last' = [op |-> "storeToken", token |-> token]
  /\ UNCHANGED event_projects
  /\ CacheFrame

CacheGetLatestToken ==
  /\ \E token \in getLatestToken(google_tokens) :
       last' = [op |-> "getLatestToken", token |-> token]
  /\ UNCHANGED <<event_projects, google_tokens>>
  /\ CacheFrame

NextCache ==
  \/ \E n \in EventNames, p \in EventProjects : CacheSetEventProject(n, p)
  \/ \E n \in EventNames : CacheGetEventProject(n)
  \/ \E token \in Tokens : CacheStoreToken(token)
  \/ CacheGetLatestToken
  \/ \E d \in ClockSteps : Advance(d)

SpecCache == Init /\ [][NextCache]_vars

TypeOK ==
  /\ nextId \in 1..(MaxCmds + MaxMonitorTicks + 2)
  /\ remote \in Projects \cup {NoTimer}
  /\ isLocked \in BOOLEAN /\ lastIdle \in BOOLEAN

(***************************************************************************)
(* Properties                                                              *)
(***************************************************************************)
IsClosed(x) == x.completedAt # NULL
MonitorResuming == {s \in MonitorSlots : task[s].pc \in {"st_user", "st_post", "st_proj"}}
Restart(res) == last.op = "safeRestartTimerIfNeeded" /\ last.res = res

\* C1: whatever the commands and the two pollers do, the store never holds more
\* than one session whose completedAt is absent.
C1_AtMostOneOpen == Cardinality(OpenIdx(sessions)) <= 1

\* C2: two returns to active observed within RESUME_COOLDOWN_MS of each other
\* (by one poller or by the two) lead to at most one resume: no two sessions
\* appended by a resume stem from transitions less than the cooldown apart.
C2_CooldownOneResume ==
  \A r1 \in resumed, r2 \in resumed :
    r1 # r2 => \/ r1.transAt - r2.transAt >= RESUME_COOLDOWN_MS
               \/ r2.transAt - r1.transAt >= RESUME_COOLDOWN_MS

\* C3: a stopTimerAndLog that finds a remote timer running and whose remote calls
\* succeed stops that timer and closes the open session as auto-completed,
\* whatever the store holds: it ends in no other way than "no timer running",
\* "a remote call failed" or "stopped".
C3_InactiveTickStops ==
  last.op = "stopTimerAndLog" =>
    last.res \in {"noActive", "getActiveFailed", "stopFailed", "stopped"}

\* C4: a return to active that reaches the eligibility decision with a latest
\* session that is closed, auto-completed, completed 30 minutes before (and has a
\* project) and with no remote timer running is never turned down, and once its
\* remote start has succeeded exactly one session has been appended for it.
HalfHourOld(ls, t) ==
  /\ IsClosed(ls) /\ ls.isAutoCompleted = 1 /\ ls.projectId # ""
  /\ t - ls.completedAt >= 30 * 60 * 1000
  /\ t - ls.completedAt < 31 * 60 * 1000

C4_EligibleResumesOnce ==
  /\ Restart("ineligible") => ~HalfHourOld(last.sess, last.at)
  /\ \A s \in MonitorSlots :
       task[s].pc = "st_proj" =>
         /\ Cardinality({i \in 1..Len(sessions) : sessions[i].id = task[s].sessionId}) = 1
         /\ Cardinality({r \in resumed : r.new.id = task[s].sessionId}) = 1
         /\ HalfHourOld(task[s].latestSession, task[s].decidedAt) =>
              \E r \in resumed : r.new.id = task[s].sessionId /\ r.src = task[s].latestSession

C4_Witness ==
  \E s \in MonitorSlots :
    /\ task[s].pc = "st_proj"
    /\ task[s].transAt - task[s].latestSession.completedAt = 30 * 60 * 1000
    /\ HalfHourOld(task[s].latestSession, task[s].decidedAt)
    /\ remote = task[s].latestSession.projectId
    /\ Cardinality(resumed) = 1

\* C5: no resume is decided on a session completed two hours or more before the
\* decision, and an auto-completed session with a project is turned down only
\* when it was completed two hours or more before (completedAt > now - 2h).
C5_FreshnessWindow ==
  /\ \A r \in resumed : IsClosed(r.src) /\ r.decidedAt - r.src.completedAt < TWO_HOURS_MS
  /\ \A s \in MonitorResuming :
       IsClosed(task[s].latestSession)
       /\ task[s].decidedAt - task[s].latestSession.completedAt < TWO_HOURS_MS
  /\ (Restart("ineligible") /\ IsClosed(last.sess) /\ last.sess.isAutoCompleted = 1
        /\ last.sess.projectId # "")
       => last.at - last.sess.completedAt >= TWO_HOURS_MS

\* turned down exactly at the two-hour boundary
C5_Witness ==
  /\ Restart("ineligible")
  /\ IsClosed(last.sess) /\ last.sess.isAutoCompleted = 1
  /\ last.at - last.sess.completedAt = TWO_HOURS_MS

\* C6: the session a resume appends has the project and the description of the
\* auto-completed session S it continues, is open and not auto-completed, and S
\* stays in the store closed and auto-completed.
C6_ResumeCopiesSession ==
  \A r \in resumed :
    /\ r.new.projectId = r.src.projectId
    /\ r.new.description = r.src.description
    /\ r.new.completedAt = NULL
    /\ r.new.isAutoCompleted = 0
    /\ IsClosed(r.src) /\ r.src.isAutoCompleted = 1
    /\ r.src \in Rows(sessions)
    /\ r.new.id \in Ids(sessions)

\* S was started by the start command, closed by an auto-stop and resumed on a
\* return to active 20 s later
C6_Witness ==
  \E r \in resumed :
    /\ r.transAt - r.src.completedAt = 20000
    /\ r.src.description # DefaultDescription
    /\ r.new \in Rows(sessions)

\* C7: a resume is decided only on a latest session that is closed and
\* auto-completed; a latest session closed by the stop command is never resumed.
C7_OnlyAutoCompletedResumes ==
  /\ \A s \in MonitorResuming :
       IsClosed(task[s].latestSession) /\ task[s].latestSession.isAutoCompleted = 1
  /\ \A r \in resumed : r.src.isAutoCompleted = 1

\* a return to active after the stop command closed the latest session: turned down
C7_Witness ==
  /\ Restart("ineligible")
  /\ IsClosed(last.sess) /\ last.sess.isAutoCompleted = 0
  /\ last.transAt > last.sess.completedAt
  /\ last.at - last.sess.completedAt < TWO_HOURS_MS
  /\ last.sess \in getLatestSession(sessions)

\* C8: a second completeLatestSession right after a first one leaves the store as
\* the first one left it.
C8_CloseTwiceIdempotent ==
  [][(last.op = "completeLatestSession" /\ last'.op = "completeLatestSession")
       => sessions' = sessions]_vars

\* C9: completeLatestSession sets completedAt and isAutoCompleted on one open
\* session of greatest startedAt and changes no other row; with no open session
\* it changes nothing.
C9_CloseFrame ==
  [][last'.op = "completeLatestSession" =>
       IF OpenIdx(sessions) = {}
         THEN sessions' = sessions
         ELSE \E i \in OpenIdx(sessions) :
                /\ \A j \in OpenIdx(sessions) : sessions[j].startedAt <= sessions[i].startedAt
                /\ sessions' = [sessions EXCEPT
                      ![i].completedAt = last'.at,
                      ![i].isAutoCompleted = IF last'.res = "auto" THEN 1 ELSE 0]]_vars

\* a close that left an older open session and a closed session as they were
C9_Witness ==
  /\ last.op = "completeLatestSession"
  /\ \E i \in 1..Len(sessions), j \in 1..Len(sessions), k \in 1..Len(sessions) :
       /\ sessions[i].completedAt = last.at /\ sessions[i].startedAt > sessions[j].startedAt
       /\ sessions[j].completedAt = NULL
       /\ k # i /\ IsClosed(sessions[k]) /\ sessions[k].completedAt # last.at

\* C10: getLatestSession returns a session of greatest startedAt among all
\* sessions, and returns absent, without failing, when the store is empty.
C10_LatestOrAbsent ==
  last.op = "getLatestSession" =>
    /\ last.res # "threw"
    /\ Len(sessions) > 0 =>
         /\ last.sess \in Rows(sessions)
         /\ \A x \in Rows(sessions) : x.startedAt <= last.sess.startedAt

\* C11: logSessionStart with an id the store already holds fails and leaves the
\* store as it was (the row with that id is not overwritten); with a fresh id it
\* appends the row and leaves the others as they were.
C11_DuplicateIdRejected ==
  [][last'.op = "logSessionStart" =>
       IF last'.sess.id \in Ids(sessions)
         THEN last'.res = "threw" /\ sessions' = sessions
         ELSE last'.res = "ok" /\ sessions' = Append(sessions, last'.sess)]_vars

\* a rejected append of an id whose row has been closed in the meantime
C11_Witness ==
  /\ last.op = "logSessionStart" /\ last.res = "threw"
  /\ \E x \in Rows(sessions) :
       x.id = last.sess.id /\ IsClosed(x) /\ x.startedAt # last.sess.startedAt

\* C12: deleteOldSessions removes every session whose startedAt is before the
\* cutoff and keeps, unchanged and in order, every session whose startedAt is at or
\* after it; and on every store, purging before or after a completeLatestSession or
\* another purge leaves the same store(s), and getLatestSession changes nothing.
PurgeCommutes ==
  /\ \A c \in PurgeCutoffs, t \in StoreTimes, a \in BOOLEAN :
       {deleteOldSessions(X, c) : X \in completeLatestSession(sessions, t, a)}
         = completeLatestSession(deleteOldSessions(sessions, c), t, a)
  /\ \A c1 \in PurgeCutoffs, c2 \in PurgeCutoffs :
       deleteOldSessions(deleteOldSessions(sessions, c1), c2)
         = deleteOldSessions(deleteOldSessions(sessions, c2), c1)

C12_PurgeByCutoff ==
  /\ [][last'.op = "deleteOldSessions" =>
          sessions' = SelectSeq(sessions, LAMBDA x : x.startedAt >= last'.at)]_vars
  /\ [][last'.op = "getLatestSession" => sessions' = sessions]_vars
  /\ []PurgeCommutes

\* a purge that removed a session and kept one started exactly at the cutoff
C12_Witness ==
  /\ last.op = "deleteOldSessions"
  /\ 1 \notin Ids(sessions)
  /\ \E x \in Rows(sessions) : x.startedAt = last.at

\* C13: deleteOldSessions never removes the open session a close would act on,
\* however old it is.
C13_PurgeKeepsOpenSession ==
  [][last'.op = "deleteOldSessions" =>
       \A i \in LatestOpenIdx(sessions) : sessions[i] \in Rows(sessions')]_vars

\* C14: event_projects holds at most one row per event name; setEventProject makes
\* getEventProject return the value just set for that name (a project or the skip
\* value null) and leaves the other names as they were; getEventProject returns the
\* value held for the name, and undefined, which is not the skip value, for a name
\* that was never set; nothing else changes an assignment.
C14_LastWriteWins ==
  /\ [](\A r1 \in event_projects, r2 \in event_projects : r1.eventName = r2.eventName => r1 = r2)
  /\ [](Undefined # NullProject)
  /\ [](event_projects = {} \/ last.op # "init")
  /\ [][IF last'.op = "setEventProject"
          THEN /\ EventRow(last'.eventName, last'.res) \in event_projects'
               /\ \A r \in event_projects' : r.eventName = last'.eventName => r.projectId = last'.res
               /\ \A r \in event_projects \cup event_projects' :
                    r.eventName # last'.eventName => (r \in event_projects <=> r \in event_projects')
          ELSE event_projects' = event_projects]_vars
  /\ [][last'.op = "getEventProject" =>
          IF \E r \in event_projects : r.eventName = last'.eventName
            THEN EventRow(last'.eventName, last'.res) \in event_projects
            ELSE last'.res = Undefined]_vars

\* a set that replaced a project by the skip value, the other name never set
C14_Witness ==
  /\ last.op = "setEventProject" /\ last.prev = "p1" /\ last.res = NullProject
  /\ event_projects = {EventRow(last.eventName, NullProject)}

\* C15: no step changes or removes a row of google_tokens, storeToken appends one
\* row, and getLatestToken returns the parsed token of a row whose createdAt is the
\* greatest, or null when the table is empty.
C15_TokenHistoryAppendOnly ==
  /\ [][\A i \in 1..Len(google_tokens) :
          Len(google_tokens') >= i /\ google_tokens'[i] = google_tokens[i]]_vars
  /\ [][google_tokens' # google_tokens =>
          /\ last'.op = "storeToken"
          /\ Len(google_tokens') = Len(google_tokens) + 1
          /\ JSONparse(google_tokens'[Len(google_tokens')].token) = last'.token]_vars
  /\ [][last'.op = "getLatestToken" =>
          IF Len(google_tokens) = 0
            THEN last'.token = NullToken
            ELSE \E i \in 1..Len(google_tokens) :
                   /\ last'.token = JSONparse(google_tokens[i].token)
                   /\ \A j \in 1..Len(google_tokens) :
                        ~TextLess(google_tokens[i].createdAt, google_tokens[j].createdAt)]_vars

\* the newer of two different tokens read back
C15_Witness ==
  /\ last.op = "getLatestToken"
  /\ Len(google_tokens) = 2
  /\ TextLess(google_tokens[1].createdAt, google_tokens[2].createdAt)
  /\ google_tokens[1].token # google_tokens[2].token
  /\ last.token = JSONparse(google_tokens[2].token)

\* C16: no two callback bodies of one poller are in flight at the same time.
C16_NoSelfOverlap ==
  /\ Cardinality({s \in LockSlots : task[s].pc # "idle"}) <= 1
  /\ Cardinality({s \in IdleSlots : task[s].pc # "idle"}) <= 1

\* C17: a stopTimerAndLog that finds no remote timer running does not return
\* leaving a local session open: it closes the stale session.
C17_StaleSessionClosed ==
  [][\A s \in MonitorSlots :
       (task[s].pc = "sl_active" /\ task'[s].pc = "idle" /\ last'.res = "noActive")
         => OpenIdx(sessions') = {}]_vars

\* C18: a safeRestartTimerIfNeeded is in flight for the lock poller only if a stop
\* of the lock poller has stopped a timer in the locked period that just ended, and
\* for the idle poller only if a stop of the idle poller has stopped a timer in the
\* idle period that just ended (lastIdle).
C18_ResumeOnlyAfterOwnStop ==
  /\ \A s \in LockSlots : task[s].pc \in RestartPcs => lockStopped
  /\ \A s \in IdleSlots : task[s].pc \in RestartPcs => lastIdle

\* C19: the remote service never starts a timer for a resume while a timer is
\* running: when the POST of a resume succeeds, no remote timer was active.
C19_NoResumeOverActiveTimer ==
  [][\A s \in MonitorSlots :
       (task[s].pc = "st_post" /\ task'[s].pc = "st_proj") => remote = NoTimer]_vars

\* C20: whatever the remote client, the store or the presence source throws in a
\* callback, the callback ends in its catch: every callback in flight is at one of
\* its awaits, and a callback that ends on an exception leaves its slot free for
\* the poller's next callback.
AwaitPcs == {"sl_active", "sl_stop", "sr_sleep", "sr_active", "st_user", "st_post", "st_proj"}

C20_TickErrorsCaught ==
  /\ [](\A s \in MonitorSlots : task[s].pc \in AwaitPcs \cup {"idle"})
  /\ [][(last' # last /\ last'.res \in {"threw", "storeThrew"})
          => \E s \in MonitorSlots :
               /\ task'[s] = Idle
               /\ task[s].pc # "idle" \/ last'.op \in {"pollInterval", "idleInterval"}]_vars

\* the lock poller's presence source threw; a later callback of the lock poller is
\* awaiting, and so is a callback of the idle poller
C20_Witness ==
  /\ last.op = "pollInterval" /\ last.res = "threw"
  /\ task["L1"].pc = "sl_active"
  /\ task["I1"].pc = "sr_active"

\* a poller callback that calls stopTimerAndLog can start now
LockStopCanStart == ENABLED (\E s \in LockSlots \cap FirstSlots : LockTickLocked(s, ticks + 1))
IdleStopCanStart ==
  ENABLED (\E s \in IdleSlots \cap FirstSlots, i \in IdleSamples : IdleTickIdle(s, i, ticks + 1))

\* the stopTimerAndLog of slot s returns false in this step and leaves the remote
\* timer running
StopFails(s) ==
  /\ task[s].pc = "sl_stop"
  /\ task'[s].pc = "idle"
  /\ remote' # NoTimer

\* C21: when the stop of the tick that first observed the inactive condition has
\* failed and the remote timer is still running, the flags let a later tick
\* of the same poller call stopTimerAndLog again.
C21_FailedStopRetried ==
  [][/\ (\E s \in LockSlots : StopFails(s)) => LockStopCanStart'
     /\ (\E s \in IdleSlots : StopFails(s)) => IdleStopCanStart']_vars

\* the latest session was auto-completed well within the two hours before t
RecentlyAutoCompleted(ls, t) ==
  /\ ls # ZodError
  /\ IsClosed(ls) /\ AutoCompleted(ls) /\ ls.projectId # ""
  /\ t - ls.completedAt < 31 * 60 * 1000

\* a poller has observed the return to active, is past the cooldown check and
\* no remote timer is running
ReturnObserved ==
  /\ remote = NoTimer
  /\ \E s \in MonitorSlots : task[s].pc = "sr_sleep"
  /\ \A ls \in getLatestSession(sessions) : RecentlyAutoCompleted(ls, now)

\* only a bound of the model keeps the monitor from going on: a return to active
\* is pending and no callback may start, or a sleep cannot end
BoundBlocks ==
  \/ /\ ticks >= MaxTicks
     /\ \/ isLocked /\ \A s \in LockSlots : SlotFree(s)
        \/ lastIdle /\ \A s \in IdleSlots : SlotFree(s)
  \/ /\ advances >= MaxAdvance
     /\ \E s \in MonitorSlots : task[s].pc = "sr_sleep" /\ now < task[s].wakeAt

\* C22: with the monitor running, the last session auto-completed and the user
\* active again within the freshness window, a remote timer is eventually running
\* (unless only a bound of the model keeps the monitor from going on).
C22_EventuallyResumed == ReturnObserved ~> (remote # NoTimer \/ BoundBlocks)

\* stopJiraTimer has been called by the most recent stop
JiraNotified ==
  /\ last.op \in {"stop", "stopTimerAndLog"}
  /\ last.res = "stopped"
  /\ last.sess # ZodError

\* C23: a stop calls stopJiraTimer only for the session it closes: that session
\* has a ticket, it was open when the stop began and is now closed at this
\* stop's completion time, and at least 60 seconds are logged.
C23_JiraOnlyForClosedByStop ==
  JiraNotified =>
    /\ last.sess.jiraTicket # NoTicket
    /\ last.at >= JIRA_MIN_SECONDS
    /\ ~IsClosed(last.sess)
    /\ \E i \in 1..Len(sessions) :
         sessions[i].id = last.sess.id /\ sessions[i].completedAt = last.transAt

\* slot s is handed the result of its remote stop in this step
StopReturns(s) == task[s].pc \in {"sl_stop", "sc_stop"} /\ task'[s].pc = "idle"

\* a session that was open is closed in this step
SessionClosedInStep ==
  \E i \in 1..Len(sessions) :
    /\ i <= Len(sessions')
    /\ ~IsClosed(sessions[i])
    /\ IsClosed(sessions'[i])

\* C24: a stop (auto-stop or stop command) closes the open session only in the
\* step in which its remote stop has stopped a running timer; a stop whose remote
\* stop returns nothing leaves the session store unchanged.
C24_CloseOnlyAfterRemoteStop ==
  [][/\ SessionClosedInStep =>
          /\ \E s \in Slots : StopReturns(s)
          /\ remote # NoTimer /\ remote' = NoTimer
          /\ last'.res = "stopped"
     /\ \A s \in Slots :
          StopReturns(s) /\ last'.res \in {"stopFailed", "noTimer"} => sessions' = sessions]_vars

\* the stop command's remote stop returned nothing and the session is still open
C24_Witness ==
  /\ last.op = "stop" /\ last.res = "noTimer"
  /\ OpenIdx(sessions) # {}

\* a safeRestartTimerIfNeeded called for slot s now would get past the cooldown
PassesCooldown(s) == ENABLED (BeginRestart(s, ticks + 1) /\ task'[s].pc = "sr_sleep")

\* the safeRestartTimerIfNeeded of slot s, handed the answer of getActiveTimer
\* now, would go on to startTimer
DecidesToResume(s, ok) == ENABLED (SrActive(s, ok) /\ task'[s].pc = "st_user")

LockAxisNeverSampled ==
  /\ ~isLocked /\ ~lockStopped
  /\ \A s \in LockSlots : task[s] = Idle

\* the idle poller's branches are open as on any platform (the bound on callbacks
\* set aside)
IdleAxisWorks ==
  /\ \A s \in IdleSlots \cap FirstSlots : SlotFree(s) => IdleStopCanStart
  /\ \A s \in IdleSlots \cap FirstSlots :
       SlotFree(s) /\ lastIdle => ENABLED (\E i \in IdleSamples : IdleTickActive(s, i, ticks + 1))

\* C26: when the lock-state source is unavailable the lock poller never samples
\* for the lifetime of the process, and the idle poller's auto-stop and resume
\* stay available.
C26_IdleAxisAlone ==
  (last.op = "monitor" /\ last.res = "lockSourceUnavailable")
    => [](LockAxisNeverSampled /\ IdleAxisWorks)

\* without a lock poller, the idle poller has stopped the timer on idle and
\* resumed on the return to active
C26_Witness ==
  /\ pollInterval = NoInterval
  /\ \E r \in resumed : r.new.completedAt = NULL
  /\ remote # NoTimer
  /\ ~lastIdle

\* the monitor's process has exited
ProcessExited == \A s \in MonitorSlots : task[s] = Exited

\* C27: after SIGINT or SIGTERM the two polling timers are released by the time
\* the process exits, and from then on no callback of a poller starts or goes on.
C27_TimersReleasedOnSignal ==
  /\ [](ProcessExited => idleInterval = ClearedInterval /\ pollInterval # ActiveInterval)
  /\ [][ProcessExited => ticks' = ticks /\ task' = task]_vars

\* a signal has arrived after callbacks of the pollers had started; both timers are released
C27_Witness ==
  /\ ProcessExited
  /\ last.op = "cleanupAndExit"
  /\ pollInterval = ClearedInterval /\ idleInterval = ClearedInterval
  /\ ticks >= 2

\* row i, open before, is closed in this step
ClosedInStep(i) ==
  /\ i <= Len(sessions')
  /\ ~IsClosed(sessions[i])
  /\ IsClosed(sessions'[i])

\* C28: autoCompleted tells who closed the session: an open session has
\* autoCompleted = false, a session closed by the monitor's auto-stop gets true
\* and a session closed by the stop command gets false.
C28_AutoCompletedIffAutoStop ==
  /\ [](\A i \in OpenIdx(sessions) : sessions[i].isAutoCompleted = 0)
  /\ [][\A i \in 1..Len(sessions) :
          ClosedInStep(i) =>
            /\ (\E s \in MonitorSlots : StopReturns(s)) => sessions'[i].isAutoCompleted = 1
            /\ StopReturns("cmd") => sessions'[i].isAutoCompleted = 0
            /\ \E s \in Slots : StopReturns(s)]_vars

\* two sessions were open; the monitor's auto-stop has closed one of them, which
\* has autoCompleted = true, and the other is still open with autoCompleted = false
C28_Witness ==
  /\ last.op = "stopTimerAndLog" /\ last.res = "stopped"
  /\ \E i, j \in 1..Len(sessions) :
       /\ IsClosed(sessions[i]) /\ sessions[i].isAutoCompleted = 1
       /\ ~IsClosed(sessions[j]) /\ sessions[j].isAutoCompleted = 0

\* this step is a purge
PurgeStep ==
  \E d \in PurgeDays, o \in OffsetChanges :
    sessions' = deleteOldSessions(sessions, CutoffDate(now, d, o))

\* C29: a closed session is left as it is by every operation but purge, which
\* deletes it; closing an open session changes its completedAt and autoCompleted
\* only; id, projectId, description, startedAt and ticket never change.
C29_ClosedSessionsImmutable ==
  [][\A i \in 1..Len(sessions) :
       LET r == sessions[i] IN
         \/ r \in Rows(sessions')
         \/ /\ ~IsClosed(r)
            /\ \E x \in Rows(sessions') :
                 /\ IsClosed(x)
                 /\ x = [r EXCEPT !.completedAt = x.completedAt,
                                   !.isAutoCompleted = x.isAutoCompleted]
         \/ /\ PurgeStep
            /\ r.id \notin Ids(sessions')]_vars

\* a session closed days ago has come through the closing of a later session
C29_Witness ==
  /\ last.op = "completeLatestSession"
  /\ \E i, j \in 1..Len(sessions) :
       /\ IsClosed(sessions[i]) /\ sessions[i].completedAt = last.at
       /\ IsClosed(sessions[j]) /\ sessions[j].completedAt < Epoch

\* C30: every closed session has completedAt >= startedAt, however the monitor's
\* auto-stop interleaves with the start and stop commands.
C30_CompletedNotBeforeStarted ==
  \A i \in 1..Len(sessions) :
    IsClosed(sessions[i]) => sessions[i].completedAt >= sessions[i].startedAt

\* the startTimer of slot s returns null in this step: the user lookup or the
\* POST has failed
StartTimerFails(s) == task[s].pc \in {"st_user", "st_post"} /\ task'[s].pc = "idle"

\* the POST of slot s is answered with the new time entry in this step
PostSucceeds(s) ==
  /\ task[s].pc = "st_post" /\ task'[s].pc = "st_proj"
  /\ remote' = task[s].projectId

\* C31: startTimer appends a session only in the step in which its POST has
\* succeeded; when the user lookup or the POST fails the store is unchanged.
C31_AppendOnlyAfterRemoteStart ==
  [][/\ Len(sessions') > Len(sessions) => \E s \in Slots : PostSucceeds(s)
     /\ \A s \in Slots : StartTimerFails(s) => sessions' = sessions]_vars

\* a first start has logged its session; the POST of a second start has failed
\* and the store still holds that one session
C31_Witness ==
  /\ last.op = "start" /\ last.res = "postFailed"
  /\ task["cmd"].pc = "idle"
  /\ Ids(sessions) = {1}
  /\ nextId = 3

\* the ids of the sessions appended by a resume
ResumedIds == {r.new.id : r \in resumed}

\* a session appended by a resume has no ticket
ResumedWithoutTicket == \A r \in resumed : r.new.jiraTicket = NoTicket

\* C32: a session appended by a resume carries no ticket reference, and the stop
\* that closes such a session does not call stopJiraTimer.
C32_ResumedNeverNotifies ==
  /\ []ResumedWithoutTicket
  /\ [][\A i \in 1..Len(sessions) :
          ClosedInStep(i) /\ sessions[i].id \in ResumedIds => ~JiraNotified']_vars

====
